---- MODULE Spec2Model ----
(***************************************************************************)
(* A model of the cricket score scraper worker (src/src/index.ts): the     *)
(* feed fetcher and decoder (fetchMatchJson), the aggregator               *)
(* (processMatchData), the persistence adapter (storeMatchData) and the    *)
(* scheduling driver (scheduled).                                          *)
(*                                                                         *)
(* JavaScript strings that the code takes apart (feed bodies, dot-ball     *)
(* counts, player names, URLs) are sequences of tokens; strings the code   *)
(* only compares or concatenates (team identifiers) are TLA+ strings.      *)
(***************************************************************************)
EXTENDS Integers, Sequences, FiniteSets, Bags, TLC

VARIABLES
    \* ---- processMatchData, one forEach iteration per step ----
    aggPc,          \* "innings" | "bowlers" | "done"
    aggLen,         \* inningsDataArray.length
    inningsIndex,   \* index of the forEach over inningsDataArray
    inningsData,    \* the section of the element being processed
    teamStatsMap,   \* the Map, as the sequence of its values in insertion order
    battingTeam,    \* locals of the outer iteration
    bowlingTeam,
    bowlerIndex,    \* index of the forEach over bowlersData
    hasNext,        \* bowlerIndex < bowlersData.length
    bowler,         \* the entry of bowlersData processed last
    entriesRead,    \* bowler entries read so far, over all innings
    aggResult,      \* the MatchData returned
    \* ---- fetchMatchJson, one feed's callback per step ----
    fetchPc,        \* "fetching" | "done"
    fetchMatchId,   \* the matchId argument
    responses,      \* what each feed's callback resolved to, "pending" before
    served,         \* history: what the feed source answered each URL with
    fetchResult,    \* the value returned, or the error thrown
    \* ---- the clock and the D1 database ----
    now,            \* new Date(), in half hours since a midnight UTC
    Matches, Teams, TeamMatchPerformance, TreePlantingSummary, Players,
    PlayerMatchPerformance,                \* each table the set of its rows
    \* ---- scheduled and storeMatchData, per invocation ----
    pc,             \* "idle" | "count" | "check" | "skip" | "process" | "store" | "stored" | "finished"
    urlIndex,       \* position of the for loop in urls
    matchData,      \* what processMatchUrl returned for the current URL
    storePc,        \* the next statement of storeMatchData
    timestamp,      \* storeMatchData's timestamp and matchDate
    failure,        \* history: "none", or what threw into the handler's catch
    checkDate,      \* history: the date the dedup query of the current URL used
    feeds,          \* history: what the feeds of the current URL answered, until its first write
    \* ---- history of the store ----
    written,        \* the <<match id, date>> pairs Matches rows were written with
    increments,     \* the bag of summary additions: match, team, store date, trees
    storeRuns,      \* completed calls of storeMatchData by the store harness
    firstRows       \* the rows of the match after the harness's first call

aggVars == <<aggPc, aggLen, inningsIndex, inningsData, teamStatsMap, battingTeam,
             bowlingTeam, bowlerIndex, hasNext, bowler, entriesRead, aggResult>>

fetchVars == <<fetchPc, fetchMatchId, responses, served, fetchResult>>

dbVars == <<Matches, Teams, TeamMatchPerformance, TreePlantingSummary, Players,
           PlayerMatchPerformance>>
invVars == <<pc, urlIndex, matchData, storePc, timestamp, failure, checkDate, feeds>>
histVars == <<written, increments, storeRuns, firstRows>>
driverVars == <<now, dbVars, invVars, histVars>>

vars == <<aggVars, fetchVars, driverVars>>

NumFeeds == 2       \* buildJsonUrl returns two URLs: at most two payloads

----------------------------------------------------------------------------
(* JavaScript values read from the decoded feeds *)

Undefined == [t |-> "undefined"]
Str(s) == [t |-> "string", v |-> s]      \* a string kept whole
Txt(s) == [t |-> "text", v |-> s]        \* a string as its sequence of tokens
Num(n) == [t |-> "number", v |-> n]
Arr(s) == [t |-> "array", v |-> s]
Null == [t |-> "null"]

\* A value in a boolean position: undefined, "" and 0 are falsy.
Truthy(x) ==
    CASE x.t = "undefined" -> FALSE
      [] x.t = "string" -> x.v # ""
      [] x.t = "text" -> x.v # <<>>
      [] x.t = "number" -> x.v # 0

\* a || b
OrElse(a, b) == IF Truthy(a) THEN a ELSE b

\* x.toString() of a string or a non-negative integer.
TeamIdToString(x) == IF x.t = "number" THEN ToString(x.v) ELSE x.v

IsWhitespace(c) == c \in {" ", "\t", "\n"}
IsDigit(c) == c \in {"0", "1", "2", "3", "4", "5", "6", "7", "8", "9"}
DigitVal(c) ==
    CASE c = "0" -> 0 [] c = "1" -> 1 [] c = "2" -> 2 [] c = "3" -> 3
      [] c = "4" -> 4 [] c = "5" -> 5 [] c = "6" -> 6 [] c = "7" -> 7
      [] c = "8" -> 8 [] c = "9" -> 9

RECURSIVE SkipWhitespace(_)
SkipWhitespace(s) ==
    IF s # <<>> /\ IsWhitespace(Head(s)) THEN SkipWhitespace(Tail(s)) ELSE s

\* The value of the longest prefix of digits of s, continuing from acc.
RECURSIVE DigitPrefix(_, _)
DigitPrefix(s, acc) ==
    IF s # <<>> /\ IsDigit(Head(s))
    THEN DigitPrefix(Tail(s), acc * 10 + DigitVal(Head(s)))
    ELSE acc

NaN == [nan |-> TRUE, n |-> 0]
Int32(n) == [nan |-> FALSE, n |-> n]

\* parseInt(x): leading whitespace, an optional sign, then decimal digits up to
\* the first character that is none; NaN when there is no digit. undefined is
\* parsed as the text "undefined", a number as its decimal text.
ParseInt(x) ==
    CASE x.t = "undefined" -> NaN
      [] x.t = "number" -> Int32(x.v)
      [] x.t = "text" ->
            LET s == SkipWhitespace(x.v)
                neg == s # <<>> /\ Head(s) = "-"
                body == IF s # <<>> /\ Head(s) \in {"-", "+"} THEN Tail(s) ELSE s
            IN  IF body = <<>> \/ ~IsDigit(Head(body)) THEN NaN
                ELSE Int32(IF neg THEN 0 - DigitPrefix(body, 0) ELSE DigitPrefix(body, 0))

\* parseInt(x) || 0
ParseIntOrZero(x) == LET r == ParseInt(x) IN IF r.nan THEN 0 ELSE r.n

\* `${x}` inside a string of tokens.
TemplateTokens(x) ==
    CASE x.t = "undefined" -> <<"undefined">>
      [] x.t = "number" -> <<ToString(x.v)>>
      [] OTHER -> x.v

----------------------------------------------------------------------------
(* fetchMatchJson *)

\* url.split('/') and the last segment: the tokens after the last "/".
RECURSIVE LastSegment(_)
LastSegment(url) ==
    IF \E k \in 1..Len(url) : url[k] = "/"
    THEN LastSegment(Tail(url))
    ELSE url

\* extractMatchId(url): a URL is a sequence of tokens, the match id one token.
ExtractMatchId(url) == LET seg == LastSegment(url) IN IF seg = <<>> THEN "" ELSE seg[1]

FeedBase == "https://ipl-stats-sports-mechanic.s3.ap-south-1.amazonaws.com/ipl/feeds/"

\* buildJsonUrl(matchId)
BuildJsonUrl(matchId) ==
    << FeedBase \o matchId \o "-Innings1.js", FeedBase \o matchId \o "-Innings2.js" >>

\* The JSON texts the feed source serves, each with the value JSON.parse gives.
\* Match 1832: 13 bats first, 17 bowls; match 1833: 17 bats first, 13 bowls.
BowlerJson(teamId, short, dots) ==
    [TeamID |-> Num(teamId), PlayerShortName |-> Txt(<<short>>),
     PlayerName |-> Txt(<<short, " ", "K">>), PlayerID |-> Num(1), DotBalls |-> Txt(<<dots>>)]
SectionJson(bat, bowl, short, dots) ==
    [t |-> "object", BattingCard |-> Arr(<<[TeamID |-> Num(bat)]>>),
     BowlingCard |-> Arr(<<BowlerJson(bowl, short, dots)>>)]
JsonTable ==
    [tok \in {"J1832-1", "J1832-2", "J1833-1", "J1833-2"} |->
        CASE tok = "J1832-1" -> [Innings1 |-> SectionJson(13, 17, "X", "2"), Innings2 |-> Undefined]
          [] tok = "J1832-2" -> [Innings1 |-> Undefined, Innings2 |-> SectionJson(17, 13, "Y", "1")]
          [] tok = "J1833-1" -> [Innings1 |-> SectionJson(17, 13, "Y", "1"), Innings2 |-> Undefined]
          [] tok = "J1833-2" -> [Innings1 |-> Undefined, Innings2 |-> SectionJson(13, 17, "X", "1")]]
JsonTexts == DOMAIN JsonTable

IsLineTerminator(c) == c \in {"\n", "\r"}
NoLineTerminator(text, from, to) == \A k \in from..to : ~IsLineTerminator(text[k])

\* text[from..] matches ;?\s*$
TailMatches(text, from) ==
    LET rest == IF from <= Len(text) /\ text[from] = ";" THEN from + 1 ELSE from
    IN  \A k \in rest..Len(text) : IsWhitespace(text[k]) \/ IsLineTerminator(text[k])

\* text.match(/^.*?\((.*)\);?\s*$/): the pairs (i, j) of an opening and a closing
\* parenthesis the pattern can match at; the lazy prefix takes the least i, the
\* greedy group the greatest j. The result is the group, or null.
NoMatch == [matched |-> FALSE, group |-> <<>>]
JsonpMatch(text) ==
    LET fits(i, j) == /\ text[i] = "(" /\ text[j] = ")" /\ i < j
                      /\ NoLineTerminator(text, 1, i - 1)
                      /\ NoLineTerminator(text, i + 1, j - 1)
                      /\ TailMatches(text, j + 1)
        opens == {i \in 1..Len(text) : \E j \in 1..Len(text) : fits(i, j)}
    IN  IF opens = {} THEN NoMatch
        ELSE LET i == CHOOSE a \in opens : \A b \in opens : a <= b
                 j == CHOOSE a \in {c \in 1..Len(text) : fits(i, c)} :
                            \A b \in {c \in 1..Len(text) : fits(i, c)} : b <= a
             IN  [matched |-> TRUE, group |-> SubSeq(text, i + 1, j - 1)]

RECURSIVE TrimRight(_)
TrimRight(s) ==
    IF s # <<>> /\ (IsWhitespace(s[Len(s)]) \/ IsLineTerminator(s[Len(s)]))
    THEN TrimRight(SubSeq(s, 1, Len(s) - 1)) ELSE s
RECURSIVE TrimLeft(_)
TrimLeft(s) ==
    IF s # <<>> /\ (IsWhitespace(Head(s)) \/ IsLineTerminator(Head(s)))
    THEN TrimLeft(Tail(s)) ELSE s

\* JSON.parse(text): white space around one JSON text; anything else throws.
JsonParse(text) ==
    LET core == TrimLeft(TrimRight(text))
    IN  IF Len(core) = 1 /\ core[1] \in JsonTexts
            THEN [threw |-> FALSE, value |-> JsonTable[core[1]]]
        ELSE IF Len(core) = 1 /\ core[1] = "null"
            THEN [threw |-> FALSE, value |-> Null]
        ELSE [threw |-> TRUE, value |-> Undefined]

\* What fetch(url) and response.text() can give: the fetch rejects, a response
\* with a status, and a body that arrives or fails to.
Rejected == [kind |-> "rejected"]
Response(ok, bodyArrives, body) ==
    [kind |-> "response", ok |-> ok, bodyArrives |-> bodyArrives, body |-> body]

\* A promise that rejects
Rejection == [t |-> "rejection"]

\* The callback without its try/catch: a failed fetch or body read rejects.
FetchOneNoCatch(r) ==
    IF r.kind = "rejected" THEN Rejection
    ELSE IF ~r.ok THEN Null
    ELSE IF ~r.bodyArrives THEN Rejection
    ELSE LET jsonMatch == JsonpMatch(r.body)
         IN  IF ~jsonMatch.matched \/ jsonMatch.group = <<>> THEN Null
             ELSE LET parsed == JsonParse(jsonMatch.group)
                  IN  IF parsed.threw THEN Null ELSE parsed.value

\* The callback of jsonUrls.map (lines 73-102): the payload, or null. Every
\* throw inside it is caught, so the promise it returns never rejects.
FetchOne(r) ==
    IF r.kind = "rejected" THEN Null
    ELSE IF ~r.ok THEN Null
    ELSE IF ~r.bodyArrives THEN Null
    ELSE LET jsonMatch == JsonpMatch(r.body)
         IN  IF ~jsonMatch.matched \/ jsonMatch.group = <<>> THEN Null
             ELSE LET parsed == JsonParse(jsonMatch.group)
                  IN  IF parsed.threw THEN Null ELSE parsed.value

\* responses.filter(response => response !== null)
RECURSIVE FilterNotNull(_)
FilterNotNull(rs) ==
    IF rs = <<>> THEN <<>>
    ELSE IF Head(rs) = Null THEN FilterNotNull(Tail(rs))
    ELSE <<Head(rs)>> \o FilterNotNull(Tail(rs))

\* Lines 104-114, once Promise.all has resolved: the non-null responses, or the
\* error thrown when there is none.
Thrown(msg) == [threw |-> TRUE, value |-> <<>>, error |-> msg]
Returned(v) == [threw |-> FALSE, value |-> v, error |-> ""]
JoinResponses(matchId, rs) ==
    LET validResponses == FilterNotNull(rs)
    IN  IF \E k \in 1..Len(rs) : rs[k] = Rejection
        THEN Thrown("rejected")      \* Promise.all rejects, line 111 rethrows
        ELSE IF Len(validResponses) = 0
        THEN Thrown("Failed to fetch any valid data for match " \o matchId)
        ELSE Returned(validResponses)

\* fetchMatchJson(matchId) when the two URLs are answered with rs[1] and rs[2].
FetchMatchJson(matchId, rs) ==
    JoinResponses(matchId, [k \in 1..Len(rs) |-> FetchOne(rs[k])])

\* The parts at rest, for the specifications that do not step through them.
Invocations == {1, 2}
EmptyDb ==
    /\ Matches = {} /\ Teams = {} /\ TeamMatchPerformance = {}
    /\ TreePlantingSummary = {} /\ Players = {} /\ PlayerMatchPerformance = {}
NoHistory ==
    /\ written = {} /\ increments = EmptyBag /\ storeRuns = 0 /\ firstRows = Undefined
InvocationsIdle ==
    /\ pc = [i \in Invocations |-> "idle"]
    /\ urlIndex = [i \in Invocations |-> 0]
    /\ matchData = [i \in Invocations |-> Undefined]
    /\ storePc = [i \in Invocations |-> Undefined]
    /\ timestamp = [i \in Invocations |-> 0]
    /\ failure = [i \in Invocations |-> "none"]
    /\ checkDate = [i \in Invocations |-> 0]
    /\ feeds = [i \in Invocations |-> <<>>]
DriverOff == now = 0 /\ EmptyDb /\ InvocationsIdle /\ NoHistory

AggOff ==
    /\ aggPc = "off" /\ aggLen = 0 /\ inningsIndex = 0 /\ inningsData = Undefined
    /\ teamStatsMap = <<>> /\ battingTeam = "" /\ bowlingTeam = "" /\ bowlerIndex = 0
    /\ hasNext = FALSE /\ bowler = Undefined /\ entriesRead = 0 /\ aggResult = Undefined

(* fetchMatchJson step by step: the two callbacks run in either order, each  *)
(* on an answer drawn from every status and every body of bounded length.    *)

MaxBodyLen == 4     \* tokens of a response body
MatchIds == {"1832", "1833"}

JsonTextOf(matchId, k) == "J" \o matchId \o "-" \o ToString(k)
BodyTokens(matchId, k) == {"cb", "(", ")", ";", "\n", "null", JsonTextOf(matchId, k)}
Bodies(matchId, k) == UNION {[1..n -> BodyTokens(matchId, k)] : n \in 0..MaxBodyLen}
Answers(matchId, k) ==
    {Rejected, Response(FALSE, TRUE, <<>>), Response(TRUE, FALSE, <<>>)}
    \cup {Response(TRUE, TRUE, b) : b \in Bodies(matchId, k)}

\* What an answer is, said without the decoder: the envelope runs from the first
\* opening parenthesis to the last closing one, on one line, followed by at most
\* a semicolon and white space; what lies between is one JSON text.
Outcome(r) ==
    IF r.kind = "rejected" \/ (r.ok /\ ~r.bodyArrives)
        THEN [outcome |-> "network", payload |-> Undefined]
    ELSE IF ~r.ok THEN [outcome |-> "status", payload |-> Undefined]
    ELSE LET b == r.body
             opens == {k \in 1..Len(b) : b[k] = "("}
             closes == {k \in 1..Len(b) : b[k] = ")"}
             first == CHOOSE k \in opens : \A o \in opens : k <= o
             last == CHOOSE k \in closes : \A c \in closes : c <= k
         IN  IF opens = {} \/ closes = {} THEN [outcome |-> "nomatch", payload |-> Undefined]
             ELSE IF \/ last < first
                     \/ \E k \in 1..last : IsLineTerminator(b[k])
                     \/ ~TailMatches(b, last + 1)
                  THEN [outcome |-> "nomatch", payload |-> Undefined]
             ELSE LET mid == SubSeq(b, first + 1, last - 1)
                  IN  IF mid = <<"null">> THEN [outcome |-> "success", payload |-> Null]
                      ELSE IF Len(mid) = 1 /\ mid[1] \in JsonTexts
                           THEN [outcome |-> "success", payload |-> JsonTable[mid[1]]]
                      ELSE [outcome |-> "badjson", payload |-> Undefined]

Pending == [t |-> "pending"]

FetchInit ==
    /\ fetchPc = "fetching"
    /\ fetchMatchId \in MatchIds
    /\ responses = [k \in 1..NumFeeds |-> Pending]
    /\ served = [k \in 1..NumFeeds |-> Pending]
    /\ fetchResult = Undefined

\* Lines 73-102 for the k-th URL.
FetchFeed(k) ==
    /\ fetchPc = "fetching" /\ responses[k] = Pending
    /\ \E r \in Answers(fetchMatchId, k) :
        /\ responses' = [responses EXCEPT ![k] = FetchOne(r)]
        /\ served' = [served EXCEPT ![k] = Outcome(r)]
    /\ UNCHANGED <<fetchPc, fetchMatchId, fetchResult>>
    /\ UNCHANGED <<aggVars, driverVars>>

\* Lines 104-114.
FetchJoin ==
    /\ fetchPc = "fetching" /\ \A k \in 1..NumFeeds : responses[k] # Pending
    /\ fetchResult' = JoinResponses(fetchMatchId, responses)
    /\ fetchPc' = "done"
    /\ UNCHANGED <<fetchMatchId, responses, served>>
    /\ UNCHANGED <<aggVars, driverVars>>

FetchOff ==
    /\ fetchPc = "off" /\ fetchMatchId = "" /\ responses = <<>> /\ served = <<>>
    /\ fetchResult = Undefined

FetchNext == (\E k \in 1..NumFeeds : FetchFeed(k)) \/ FetchJoin

InitFetch == FetchInit /\ AggOff /\ DriverOff
SpecFetch == InitFetch /\ [][FetchNext]_vars

----------------------------------------------------------------------------
(* processMatchData *)

TREES_PER_DOT_BALL == 18

\* teamStatsMap.has(k), and the position of k's value
MapHas(map, k) == \E i \in 1..Len(map) : map[i].name = k
MapIndex(map, k) == CHOOSE i \in 1..Len(map) : map[i].name = k

\* if (!teamStatsMap.has(team)) teamStatsMap.set(team, {...})
EnsureTeam(map, team) ==
    IF MapHas(map, team) THEN map
    ELSE Append(map, [name |-> team, totalDotBallsBowled |-> 0,
                      totalTreesPlanted |-> 0, players |-> <<>>])

\* data.Innings1 for the first element, data.Innings2 for every other one
SectionOf(d, idx) == IF idx = 0 THEN d.Innings1 ELSE d.Innings2

\* card?.[0]?.TeamID
HeadTeamID(card) ==
    IF card = Undefined \/ card.v = <<>> THEN Undefined ELSE card.v[1].TeamID

BattingTeamOf(sec, idx) ==
    TeamIdToString(OrElse(HeadTeamID(sec.BattingCard),
                          Str("Team" \o ToString(idx * 2 + 1))))

\* The bowling side falling back on the batting side's placeholder
BowlingTeamOfSamePlaceholder(sec, idx) ==
    TeamIdToString(OrElse(HeadTeamID(sec.BowlingCard),
                          Str("Team" \o ToString(idx * 2 + 1))))

BowlingTeamOf(sec, idx) ==
    TeamIdToString(OrElse(HeadTeamID(sec.BowlingCard),
                          Str("Team" \o ToString(idx * 2 + 2))))

\* inningsData.BowlingCard || []
BowlersData(sec) == IF sec.BowlingCard = Undefined THEN <<>> ELSE sec.BowlingCard.v

\* bowler.PlayerShortName || bowler.PlayerName || `Player${bowler.PlayerID}`
BowlerName(b) ==
    OrElse(b.PlayerShortName,
           OrElse(b.PlayerName, Txt(<<"Player">> \o TemplateTokens(b.PlayerID)))).v

\* A find that never finds
FindNone(players, name) == 0

\* team.players.find(p => p.name === bowlerName): the first match, 0 when none
FindPlayer(players, name) ==
    IF \E i \in 1..Len(players) : players[i].name = name
    THEN CHOOSE i \in 1..Len(players) :
            /\ players[i].name = name
            /\ \A j \in 1..(i - 1) : players[j].name # name
    ELSE 0

\* The update-or-push of one bowler into a player list.
UpsertPlayer(players, name, dotBalls, treesPlanted) ==
    LET i == FindPlayer(players, name)
    IN  IF i # 0
        THEN [players EXCEPT ![i].dotBallsBowled = @ + dotBalls,
                             ![i].treesBowling = @ + treesPlanted]
        ELSE Append(players, [name |-> name, dotBallsBowled |-> dotBalls,
                              dotBallsPlayed |-> 0, treesBowling |-> treesPlanted])

\* The iteration without its update of the team's tree total
AddBowlerPlayerOnly(map, team, b) ==
    LET dotBalls == ParseIntOrZero(b.DotBalls)
        treesPlanted == dotBalls * TREES_PER_DOT_BALL
        k == MapIndex(map, team)
    IN  [map EXCEPT ![k].totalDotBallsBowled = @ + dotBalls,
                    ![k].players = UpsertPlayer(@, BowlerName(b), dotBalls, treesPlanted)]

\* One iteration of bowlersData.forEach: the map after bowler b of team.
AddBowler(map, team, b) ==
    LET dotBalls == ParseIntOrZero(b.DotBalls)
        treesPlanted == dotBalls * TREES_PER_DOT_BALL
        k == MapIndex(map, team)
    IN  [map EXCEPT ![k].totalDotBallsBowled = @ + dotBalls,
                    ![k].totalTreesPlanted = @ + treesPlanted,
                    ![k].players = UpsertPlayer(@, BowlerName(b), dotBalls, treesPlanted)]

RECURSIVE AddBowlers(_, _, _)
AddBowlers(map, team, card) ==
    IF card = <<>> THEN map
    ELSE AddBowlers(AddBowler(map, team, Head(card)), team, Tail(card))

\* One iteration of inningsDataArray.forEach.
FoldInnings(map, d, idx) ==
    LET sec == SectionOf(d, idx)
    IN  IF sec = Undefined THEN map
        ELSE LET bat == BattingTeamOf(sec, idx)
                 bowl == BowlingTeamOf(sec, idx)
             IN  AddBowlers(EnsureTeam(EnsureTeam(map, bat), bowl), bowl, BowlersData(sec))

RECURSIVE FoldAll(_, _, _)
FoldAll(map, arr, idx) ==
    IF idx >= Len(arr) THEN map
    ELSE FoldAll(FoldInnings(map, arr[idx + 1], idx), arr, idx + 1)

\* processMatchData(inningsDataArray) at time ts
ProcessMatchData(arr, ts) == [timestamp |-> ts, teams |-> FoldAll(<<>>, arr, 0)]

----------------------------------------------------------------------------
(* processMatchData step by step, over every input of bounded size.  The    *)
(* input is read as the code reads it: an innings' two cards' first TeamIDs *)
(* when its iteration starts, each bowler's fields in the bowler's own      *)
(* iteration, and whether bowlersData has a further entry after each one.   *)

MaxEntries == 2     \* bowler entries in the whole input
TeamIdVals == {Undefined, Str("13"), Num(13), Str("17")}
BattingCards == {Undefined, Arr(<<>>)} \cup {Arr(<<[TeamID |-> v]>>) : v \in TeamIdVals}
BowlingHeads == {Undefined, Arr(<<>>)} \cup {Arr(<<[TeamID |-> v]>>) : v \in TeamIdVals}
Sections == [t : {"object"}, BattingCard : BattingCards, BowlingCard : BowlingHeads]
Payloads ==
    {[Innings1 |-> s, Innings2 |-> Undefined] : s \in Sections}
    \cup {[Innings1 |-> Undefined, Innings2 |-> s] : s \in Sections}
    \cup {[Innings1 |-> Undefined, Innings2 |-> Undefined]}

ShortNames == {Undefined, Txt(<<"X">>)}
FullNames == {Undefined, Txt(<<"A", " ", "B">>)}
PlayerIDs == {Num(7)}
DotBallVals == {Undefined, Txt(<<"1">>), Txt(<<" ", "2", "x">>)}
BowlerFields == [PlayerShortName : ShortNames, PlayerName : FullNames,
                 PlayerID : PlayerIDs, DotBalls : DotBallVals]

BowlerEntry(teamId, f) ==
    [TeamID |-> teamId, PlayerShortName |-> f.PlayerShortName,
     PlayerName |-> f.PlayerName, PlayerID |-> f.PlayerID, DotBalls |-> f.DotBalls]

AggStart ==
    /\ aggPc = "innings"
    /\ aggLen \in 0..NumFeeds
    /\ inningsIndex = 0
    /\ inningsData = Undefined
    /\ teamStatsMap = <<>>
    /\ battingTeam = ""
    /\ bowlingTeam = ""
    /\ bowlerIndex = 0
    /\ hasNext = FALSE
    /\ bowler = Undefined
    /\ entriesRead = 0
    /\ aggResult = Undefined

\* Lines 126-130: the element has no section of its index, the iteration returns.
AggSkipInnings ==
    /\ aggPc = "innings" /\ inningsIndex < aggLen
    /\ \E d \in Payloads : SectionOf(d, inningsIndex) = Undefined
    /\ inningsIndex' = inningsIndex + 1
    /\ UNCHANGED <<aggPc, aggLen, inningsData, teamStatsMap, battingTeam, bowlingTeam,
                   bowlerIndex, hasNext, bowler, entriesRead, aggResult>>
    /\ UNCHANGED <<fetchVars, driverVars>>

\* Lines 126-159: the section, the two team identifiers and their map entries.
AggBeginInnings ==
    /\ aggPc = "innings" /\ inningsIndex < aggLen
    /\ \E d \in Payloads :
        LET sec == SectionOf(d, inningsIndex) IN
        /\ sec # Undefined
        /\ BowlersData(sec) # <<>> => entriesRead < MaxEntries
        /\ inningsData' = sec
        /\ battingTeam' = BattingTeamOf(sec, inningsIndex)
        /\ bowlingTeam' = BowlingTeamOf(sec, inningsIndex)
        /\ teamStatsMap' = EnsureTeam(EnsureTeam(teamStatsMap, BattingTeamOf(sec, inningsIndex)),
                                      BowlingTeamOf(sec, inningsIndex))
        /\ hasNext' = (BowlersData(sec) # <<>>)
    /\ aggPc' = "bowlers"
    /\ bowlerIndex' = 0
    /\ UNCHANGED <<aggLen, inningsIndex, bowler, entriesRead, aggResult>>
    /\ UNCHANGED <<fetchVars, driverVars>>

\* Lines 160-183: one bowler. The first entry's TeamID is the one already read;
\* the code reads no other entry's TeamID.
AggBowler ==
    /\ aggPc = "bowlers" /\ hasNext
    /\ \E f \in BowlerFields, more \in BOOLEAN :
        LET b == BowlerEntry(IF bowlerIndex = 0 THEN HeadTeamID(inningsData.BowlingCard)
                             ELSE Undefined, f)
        IN  /\ more => entriesRead + 1 < MaxEntries
            /\ bowler' = b
            /\ teamStatsMap' = AddBowler(teamStatsMap, bowlingTeam, b)
            /\ hasNext' = more
    /\ bowlerIndex' = bowlerIndex + 1
    /\ entriesRead' = entriesRead + 1
    /\ UNCHANGED <<aggPc, aggLen, inningsIndex, inningsData, battingTeam, bowlingTeam,
                   aggResult>>
    /\ UNCHANGED <<fetchVars, driverVars>>

\* The bowlers' forEach is over: the outer iteration ends, its locals with it.
AggEndInnings ==
    /\ aggPc = "bowlers" /\ ~hasNext
    /\ aggPc' = "innings"
    /\ inningsIndex' = inningsIndex + 1
    /\ inningsData' = Undefined
    /\ battingTeam' = ""
    /\ bowlingTeam' = ""
    /\ bowlerIndex' = 0
    /\ bowler' = Undefined
    /\ UNCHANGED <<aggLen, teamStatsMap, hasNext, entriesRead, aggResult>>
    /\ UNCHANGED <<fetchVars, driverVars>>

\* Lines 186-192: the map's values, in insertion order.
AggReturn ==
    /\ aggPc = "innings" /\ inningsIndex = aggLen
    /\ aggResult' = [timestamp |-> 0, teams |-> teamStatsMap]
    /\ aggPc' = "done"
    /\ UNCHANGED <<aggLen, inningsIndex, inningsData, teamStatsMap, battingTeam,
                   bowlingTeam, bowlerIndex, hasNext, bowler, entriesRead>>
    /\ UNCHANGED <<fetchVars, driverVars>>

AggNext == AggSkipInnings \/ AggBeginInnings \/ AggBowler \/ AggEndInnings \/ AggReturn

InitAgg == AggStart /\ FetchOff /\ DriverOff
SpecAgg == InitAgg /\ [][AggNext]_vars

----------------------------------------------------------------------------
(* Time.  An instant is a number of half hours; a formatted date-time is    *)
(* its day and its time of day, and SQL's date() takes the day.             *)

TicksPerDay == 48   \* half hours in a day
IstOffset == 11     \* 5.5 * 60 * 60 * 1000 ms, in half hours
WindowStart == 28   \* 14:00 UTC, the 7:30 PM IST at which the cron window opens
MaxTicks == 2       \* half days the clock may advance

\* getCurrentISTDate()
GetCurrentISTDate(t) == t + IstOffset

\* formatDateTime(date): the offset is added again, then 'YYYY-MM-DD HH:MM:SS'
FormatDateTime(d) ==
    [day |-> (d + IstOffset) \div TicksPerDay, time |-> (d + IstOffset) % TicksPerDay]

\* date(x) of SQLite
SqlDate(x) == x.day

\* formatDateTime(getCurrentISTDate()) at instant t
NowText(t) == FormatDateTime(GetCurrentISTDate(t))

----------------------------------------------------------------------------
(* The store *)

\* The conflict target of each table's INSERT OR REPLACE / OR IGNORE / ON CONFLICT.
PrimaryKey ==
    [Matches |-> {"match_id"}, Teams |-> {"team_id"},
     TeamMatchPerformance |-> {"match_id", "team_id"},
     TreePlantingSummary |-> {"team_id"}, Players |-> {"player_id"},
     PlayerMatchPerformance |-> {"match_id", "player_id"}]

Conflicts(r, row, key) == \A c \in key : r[c] = row[c]

\* INSERT OR REPLACE INTO table VALUES row
InsertOrReplace(table, row, key) == {r \in table : ~Conflicts(r, row, key)} \cup {row}

\* INSERT OR IGNORE INTO table VALUES row
InsertOrIgnore(table, row, key) ==
    IF \E r \in table : Conflicts(r, row, key) THEN table ELSE table \cup {row}

\* An upsert of the summary that replaces the total instead of adding to it
UpsertSummaryReplace(table, teamId, trees, ts) ==
    {r \in table : r.team_id # teamId}
    \cup {[team_id |-> teamId, total_trees_planted |-> trees, last_updated |-> ts]}

\* INSERT INTO TreePlantingSummary ... ON CONFLICT(team_id) DO UPDATE SET
\* total_trees_planted = total_trees_planted + ?, last_updated = ?
UpsertSummary(table, teamId, trees, ts) ==
    IF \E r \in table : r.team_id = teamId
    THEN {IF r.team_id = teamId
          THEN [r EXCEPT !.total_trees_planted = @ + trees, !.last_updated = ts]
          ELSE r : r \in table}
    ELSE table \cup {[team_id |-> teamId, total_trees_planted |-> trees, last_updated |-> ts]}

\* The teamNames table
TeamNames ==
    [id \in {"17", "13", "19", "18", "16", "15", "14", "20", "35", "77"} |->
        CASE id = "17" -> "Mumbai Indians"
          [] id = "13" -> "Chennai Super Kings"
          [] id = "19" -> "Royal Challengers Bangalore"
          [] id = "18" -> "Rajasthan Royals"
          [] id = "16" -> "Kolkata Knight Riders"
          [] id = "15" -> "Kings XI Punjab"
          [] id = "14" -> "Delhi Capitals"
          [] id = "20" -> "Sunrisers Hyderabad"
          [] id = "35" -> "Gujarat Titans"
          [] id = "77" -> "Lucknow Super Giants"]

\* teamNames[teamId] || teamId
TeamNameOf(teamId) == IF teamId \in DOMAIN TeamNames THEN TeamNames[teamId] ELSE teamId

\* name.replace(/\s+/g, '_'): every run of white space becomes one underscore
RECURSIVE ReplaceWhitespace(_)
ReplaceWhitespace(name) ==
    IF name = <<>> THEN <<>>
    ELSE IF IsWhitespace(Head(name)) \/ IsLineTerminator(Head(name))
         THEN <<"_">> \o ReplaceWhitespace(TrimLeft(name))
         ELSE <<Head(name)>> \o ReplaceWhitespace(Tail(name))

\* `${teamId}_${player.name.replace(/\s+/g, '_')}`
PlayerIdOf(teamId, name) == <<teamId, "_">> \o ReplaceWhitespace(name)

\* The static list of match URLs (lines 349-352), two of them.
MatchUrl(matchId) ==
    <<"https:", "/", "/", "www.iplt20.com", "/", "match", "/", "2025", "/", matchId>>
Urls == <<MatchUrl("1832"), MatchUrl("1833")>>

CurUrl(i) == Urls[urlIndex[i]]
CurMatchId(i) == ExtractMatchId(CurUrl(i))
CurDate == SqlDate(NowText(now))

\* The statements of storeMatchData in order: where the call stands.
At(stmt, t, p) == [stmt |-> stmt, team |-> t, player |-> p]
StoreDone == At("return", 0, 0)
NextTeam(md, t) == IF t < Len(md.teams) THEN At("team", t + 1, 0) ELSE StoreDone
NextStatement(md, sp) ==
    CASE sp.stmt = "match" -> IF Len(md.teams) = 0 THEN StoreDone ELSE At("team", 1, 0)
      [] sp.stmt = "team" -> At("perf", sp.team, 0)
      [] sp.stmt = "perf" -> At("summary", sp.team, 0)
      [] sp.stmt = "summary" ->
            IF Len(md.teams[sp.team].players) = 0 THEN NextTeam(md, sp.team)
            ELSE At("player", sp.team, 1)
      [] sp.stmt = "player" -> At("pperf", sp.team, sp.player)
      [] sp.stmt = "pperf" ->
            IF sp.player < Len(md.teams[sp.team].players)
            THEN At("player", sp.team, sp.player + 1)
            ELSE NextTeam(md, sp.team)

\* Lines 251-254: the call starts at the Matches statement with its timestamp.
EnterStore(i) ==
    /\ timestamp' = [timestamp EXCEPT ![i] = NowText(now)]
    /\ storePc' = [storePc EXCEPT ![i] = At("match", 0, 0)]

\* The statement at storePc[i] has run: on to the next, or the call returns.
Advance(i) ==
    LET next == NextStatement(matchData[i], storePc[i])
    IN  /\ storePc' = [storePc EXCEPT ![i] = next]
        /\ pc' = [pc EXCEPT ![i] = IF next = StoreDone THEN "stored" ELSE "store"]

StoreAt(i, stmt) == pc[i] = "store" /\ storePc[i].stmt = stmt
CurTeam(i) == matchData[i].teams[storePc[i].team]
CurPlayer(i) == CurTeam(i).players[storePc[i].player]

\* Lines 257-260
MatchesAfter(table, i) ==
    InsertOrReplace(table, [match_id |-> CurMatchId(i), match_url |-> CurUrl(i),
                            match_date |-> timestamp[i], timestamp |-> timestamp[i]],
                    PrimaryKey.Matches)
StoreMatch(i) ==
    /\ StoreAt(i, "match")
    /\ Matches' = MatchesAfter(Matches, i)
    /\ written' = written \cup {<<CurMatchId(i), SqlDate(timestamp[i])>>}
    /\ feeds' = [feeds EXCEPT ![i] = <<>>]
    /\ Advance(i)
    /\ UNCHANGED <<Teams, TeamMatchPerformance, TreePlantingSummary, Players,
                   PlayerMatchPerformance, urlIndex, matchData, timestamp, failure,
                   checkDate, increments, storeRuns, firstRows, now>>
    /\ UNCHANGED <<aggVars, fetchVars>>

\* Lines 268-270
StoreTeam(i) ==
    /\ StoreAt(i, "team")
    /\ Teams' = InsertOrIgnore(Teams, [team_id |-> CurTeam(i).name,
                                       team_name |-> TeamNameOf(CurTeam(i).name)],
                               PrimaryKey.Teams)
    /\ Advance(i)
    /\ UNCHANGED <<Matches, TeamMatchPerformance, TreePlantingSummary, Players,
                   PlayerMatchPerformance, urlIndex, matchData, timestamp, failure,
                   checkDate, feeds, histVars, now>>
    /\ UNCHANGED <<aggVars, fetchVars>>

\* Lines 273-277
StorePerf(i) ==
    /\ StoreAt(i, "perf")
    /\ TeamMatchPerformance' =
        InsertOrReplace(TeamMatchPerformance,
                        [match_id |-> CurMatchId(i), team_id |-> CurTeam(i).name,
                         total_dot_balls_bowled |-> CurTeam(i).totalDotBallsBowled,
                         total_trees_planted |-> CurTeam(i).totalTreesPlanted],
                        PrimaryKey.TeamMatchPerformance)
    /\ Advance(i)
    /\ UNCHANGED <<Matches, Teams, TreePlantingSummary, Players,
                   PlayerMatchPerformance, urlIndex, matchData, timestamp, failure,
                   checkDate, feeds, histVars, now>>
    /\ UNCHANGED <<aggVars, fetchVars>>

\* The summary statement keeping the greater of the old total and the new one
SummaryAfterMax(table, i) ==
    LET t == CurTeam(i).name
        trees == CurTeam(i).totalTreesPlanted
        old == {r.total_trees_planted : r \in {x \in table : x.team_id = t}}
    IN  {r \in table : r.team_id # t}
        \cup {[team_id |-> t, last_updated |-> timestamp[i],
               total_trees_planted |->
                    IF \E v \in old : v > trees THEN CHOOSE v \in old : TRUE ELSE trees]}

\* Lines 280-286
SummaryAfter(table, i) ==
    UpsertSummary(table, CurTeam(i).name, CurTeam(i).totalTreesPlanted, timestamp[i])
StoreSummary(i) ==
    /\ StoreAt(i, "summary")
    /\ TreePlantingSummary' = SummaryAfter(TreePlantingSummary, i)
    /\ increments' = increments (+)
            SetToBag({[match |-> CurMatchId(i), team |-> CurTeam(i).name,
                       date |-> SqlDate(timestamp[i]),
                       trees |-> CurTeam(i).totalTreesPlanted]})
    /\ Advance(i)
    /\ UNCHANGED <<Matches, Teams, TeamMatchPerformance, Players,
                   PlayerMatchPerformance, urlIndex, matchData, timestamp, failure,
                   checkDate, feeds, written, storeRuns, firstRows, now>>
    /\ UNCHANGED <<aggVars, fetchVars>>

\* Lines 290-296
StorePlayer(i) ==
    /\ StoreAt(i, "player")
    /\ Players' = InsertOrIgnore(Players,
                    [player_id |-> PlayerIdOf(CurTeam(i).name, CurPlayer(i).name),
                     player_name |-> CurPlayer(i).name, team_id |-> CurTeam(i).name],
                    PrimaryKey.Players)
    /\ Advance(i)
    /\ UNCHANGED <<Matches, Teams, TeamMatchPerformance, TreePlantingSummary,
                   PlayerMatchPerformance, urlIndex, matchData, timestamp, failure,
                   checkDate, feeds, histVars, now>>
    /\ UNCHANGED <<aggVars, fetchVars>>

\* Lines 299-303
StorePlayerPerf(i) ==
    /\ StoreAt(i, "pperf")
    /\ PlayerMatchPerformance' =
        InsertOrReplace(PlayerMatchPerformance,
                        [match_id |-> CurMatchId(i),
                         player_id |-> PlayerIdOf(CurTeam(i).name, CurPlayer(i).name),
                         team_id |-> CurTeam(i).name,
                         dot_balls_bowled |-> CurPlayer(i).dotBallsBowled,
                         trees_planted |-> CurPlayer(i).treesBowling],
                        PrimaryKey.PlayerMatchPerformance)
    /\ Advance(i)
    /\ UNCHANGED <<Matches, Teams, TeamMatchPerformance, TreePlantingSummary, Players,
                   urlIndex, matchData, timestamp, failure, checkDate, feeds,
                   histVars, now>>
    /\ UNCHANGED <<aggVars, fetchVars>>

StoreStep(i) ==
    \/ StoreMatch(i) \/ StoreTeam(i) \/ StorePerf(i) \/ StoreSummary(i)
    \/ StorePlayer(i) \/ StorePlayerPerf(i)

----------------------------------------------------------------------------
(* The scheduled handler *)

\* What the feed source may answer for the k-th URL of a match: the fetch
\* fails, the object is missing, or the innings' JSONP document.
FeedBody(matchId, k) == <<"onScoring", "(", JsonTextOf(matchId, k), ")", ";">>
FeedAnswers(matchId, k) ==
    {Rejected, Response(FALSE, TRUE, <<"NoSuchKey">>), Response(TRUE, TRUE, FeedBody(matchId, k))}

\* A dedup query that never finds a row
ProcessedOnNever(table, matchId, text) == FALSE

\* SELECT match_id FROM Matches WHERE match_id = ? AND date(match_date) = date(?)
ProcessedOn(table, matchId, text) ==
    \E r \in table : r.match_id = matchId /\ SqlDate(r.match_date) = SqlDate(text)

\* The locals of a loop iteration go out of scope.
LeaveIteration(i) ==
    /\ matchData' = [matchData EXCEPT ![i] = Undefined]
    /\ storePc' = [storePc EXCEPT ![i] = Undefined]
    /\ timestamp' = [timestamp EXCEPT ![i] = 0]
    /\ checkDate' = [checkDate EXCEPT ![i] = 0]
    /\ feeds' = [feeds EXCEPT ![i] = <<>>]

\* The handler's try block is left: the loop's locals go with it.
LeaveLoop(i) ==
    /\ LeaveIteration(i)
    /\ urlIndex' = [urlIndex EXCEPT ![i] = 0]

\* An invocation begins: the URL list is built, the count query is next.
Start(i) ==
    /\ pc[i] \in {"idle", "finished"}
    /\ pc' = [pc EXCEPT ![i] = "count"]
    /\ urlIndex' = [urlIndex EXCEPT ![i] = 1]
    /\ failure' = [failure EXCEPT ![i] = "none"]
    /\ UNCHANGED <<now, dbVars, matchData, storePc, timestamp, checkDate, feeds,
                   histVars>>
    /\ UNCHANGED <<aggVars, fetchVars>>

\* Lines 396-406: the count of today's matches, which is only logged.
CountProcessed(i) ==
    /\ pc[i] = "count"
    /\ pc' = [pc EXCEPT ![i] = "check"]
    /\ UNCHANGED <<now, dbVars, urlIndex, matchData, storePc, timestamp, failure,
                   checkDate, feeds, histVars>>
    /\ UNCHANGED <<aggVars, fetchVars>>

\* Lines 410-419 when the match has a row of today.
SkipProcessed(i) ==
    /\ pc[i] = "check" /\ urlIndex[i] <= Len(Urls)
    /\ ProcessedOn(Matches, CurMatchId(i), NowText(now))
    /\ pc' = [pc EXCEPT ![i] = "skip"]
    /\ UNCHANGED <<now, dbVars, urlIndex, matchData, storePc, timestamp, failure,
                   checkDate, feeds, histVars>>
    /\ UNCHANGED <<aggVars, fetchVars>>

\* Lines 420-421: the skip is logged and the loop continues with the next URL.
Continue(i) ==
    /\ pc[i] = "skip"
    /\ pc' = [pc EXCEPT ![i] = "check"]
    /\ urlIndex' = [urlIndex EXCEPT ![i] = @ + 1]
    /\ UNCHANGED <<now, dbVars, matchData, storePc, timestamp, failure,
                   checkDate, feeds, histVars>>
    /\ UNCHANGED <<aggVars, fetchVars>>

\* Lines 410-425 when it has none.
CheckMatch(i) ==
    /\ pc[i] = "check" /\ urlIndex[i] <= Len(Urls)
    /\ ~ProcessedOn(Matches, CurMatchId(i), NowText(now))
    /\ pc' = [pc EXCEPT ![i] = "process"]
    /\ checkDate' = [checkDate EXCEPT ![i] = SqlDate(NowText(now))]
    /\ UNCHANGED <<now, dbVars, urlIndex, matchData, storePc, timestamp, failure,
                   feeds, histVars>>
    /\ UNCHANGED <<aggVars, fetchVars>>

\* Lines 426-448 when processMatchUrl returns: the summary is logged and
\* storeMatchData is entered.
ProcessMatchUrl(i) ==
    /\ pc[i] = "process"
    /\ \E a1 \in FeedAnswers(CurMatchId(i), 1), a2 \in FeedAnswers(CurMatchId(i), 2) :
        LET inningsData_ == FetchMatchJson(ExtractMatchId(CurUrl(i)), <<a1, a2>>)
        IN  /\ ~inningsData_.threw
            /\ matchData' = [matchData EXCEPT
                                ![i] = ProcessMatchData(inningsData_.value, now)]
            /\ feeds' = [feeds EXCEPT ![i] = <<Outcome(a1), Outcome(a2)>>]
    /\ pc' = [pc EXCEPT ![i] = "store"]
    /\ EnterStore(i)
    /\ UNCHANGED <<now, dbVars, urlIndex, failure, checkDate, histVars>>
    /\ UNCHANGED <<aggVars, fetchVars>>

\* Line 426 when processMatchUrl throws (lines 212-215 rethrow): control leaves
\* the loop for the catch at line 464.
ProcessMatchUrlThrows(i) ==
    /\ pc[i] = "process"
    /\ \E a1 \in FeedAnswers(CurMatchId(i), 1), a2 \in FeedAnswers(CurMatchId(i), 2) :
        FetchMatchJson(ExtractMatchId(CurUrl(i)), <<a1, a2>>).threw
    /\ pc' = [pc EXCEPT ![i] = "finished"]
    /\ failure' = [failure EXCEPT ![i] = "fetch"]
    /\ LeaveLoop(i)
    /\ UNCHANGED <<now, dbVars, histVars>>
    /\ UNCHANGED <<aggVars, fetchVars>>

\* storeMatchData has returned: the loop takes the next URL.
NextUrl(i) ==
    /\ pc[i] = "stored"
    /\ pc' = [pc EXCEPT ![i] = "check"]
    /\ urlIndex' = [urlIndex EXCEPT ![i] = @ + 1]
    /\ LeaveIteration(i)
    /\ UNCHANGED <<now, dbVars, failure, histVars>>
    /\ UNCHANGED <<aggVars, fetchVars>>

\* Lines 452-462: after the last URL the totals are read and logged.
LogTotals(i) ==
    /\ pc[i] = "check" /\ urlIndex[i] > Len(Urls)
    /\ pc' = [pc EXCEPT ![i] = "finished"]
    /\ urlIndex' = [urlIndex EXCEPT ![i] = 0]
    /\ UNCHANGED <<now, dbVars, matchData, storePc, timestamp, failure,
                   checkDate, feeds, histVars>>
    /\ UNCHANGED <<aggVars, fetchVars>>

\* A rejection that takes the Match row of the call back with it
DbErrorRollback(i) ==
    /\ pc[i] \in {"count", "check", "store"}
    /\ pc' = [pc EXCEPT ![i] = "finished"]
    /\ failure' = [failure EXCEPT ![i] = IF pc[i] = "store" THEN "store" ELSE "query"]
    /\ Matches' = IF pc[i] = "store"
                  THEN {r \in Matches : r.match_id # CurMatchId(i)} ELSE Matches
    /\ LeaveLoop(i)
    /\ UNCHANGED <<now, Teams, TeamMatchPerformance, TreePlantingSummary, Players,
                   PlayerMatchPerformance, histVars>>
    /\ UNCHANGED <<aggVars, fetchVars>>

\* A database statement rejects: nothing is written by it, the rejection
\* propagates out of storeMatchData and the loop to the catch at line 464.
DbError(i) ==
    /\ pc[i] \in {"count", "check", "store"}
    /\ pc' = [pc EXCEPT ![i] = "finished"]
    /\ failure' = [failure EXCEPT ![i] = IF pc[i] = "store" THEN "store" ELSE "query"]
    /\ LeaveLoop(i)
    /\ UNCHANGED <<now, dbVars, histVars>>
    /\ UNCHANGED <<aggVars, fetchVars>>

\* Time passes, half a day at a time.
Tick ==
    /\ now < WindowStart + MaxTicks * (TicksPerDay \div 2)
    /\ now' = now + TicksPerDay \div 2
    /\ UNCHANGED <<dbVars, invVars, histVars>>
    /\ UNCHANGED <<aggVars, fetchVars>>

\* The steps of an invocation while every database statement succeeds.
RunStep(i) ==
    \/ Start(i) \/ CountProcessed(i) \/ SkipProcessed(i) \/ Continue(i)
    \/ CheckMatch(i) \/ ProcessMatchUrl(i) \/ ProcessMatchUrlThrows(i)
    \/ StoreStep(i) \/ NextUrl(i) \/ LogTotals(i)

Run(i) == RunStep(i) \/ DbError(i)

DriverInit == now = WindowStart /\ EmptyDb /\ InvocationsIdle /\ NoHistory

\* Invocations one after the other: the cron trigger's runs never overlap.
Init == AggOff /\ FetchOff /\ DriverInit
Next == Run(1) \/ Tick
Spec == Init /\ [][Next]_vars

\* Two invocations at once, at one instant and with every database
\* statement succeeding.
NextOverlap == \E i \in Invocations : RunStep(i)
SpecOverlap == Init /\ [][NextOverlap]_vars

----------------------------------------------------------------------------
(* storeMatchData called again and again for one match with one MatchData *)

MaxStoreRuns == 3   \* completed calls

\* The MatchData processMatchUrl can return for a match
StoreInputs(matchId) ==
    {ProcessMatchData(FetchMatchJson(matchId, <<a1, a2>>).value, WindowStart) :
        <<a1, a2>> \in {as \in FeedAnswers(matchId, 1) \X FeedAnswers(matchId, 2) :
                            ~FetchMatchJson(matchId, as).threw}}

\* The rows of a match
RowsOf(table, matchId) == {r \in table : r.match_id = matchId}

StoreHarnessInit ==
    /\ now = WindowStart /\ EmptyDb /\ NoHistory
    /\ pc = [i \in Invocations |-> "idle"]
    /\ \E k \in 1..Len(Urls) :
        /\ urlIndex = [i \in Invocations |-> IF i = 1 THEN k ELSE 0]
        /\ \E md \in StoreInputs(ExtractMatchId(Urls[k])) :
            matchData = [i \in Invocations |-> IF i = 1 THEN md ELSE Undefined]
    /\ storePc = [i \in Invocations |-> Undefined]
    /\ timestamp = [i \in Invocations |-> 0]
    /\ failure = [i \in Invocations |-> "none"]
    /\ checkDate = [i \in Invocations |-> 0]
    /\ feeds = [i \in Invocations |-> <<>>]

\* await storeMatchData(matchData, url, env.DB)
StoreCall ==
    /\ pc[1] = "idle" /\ storeRuns < MaxStoreRuns
    /\ pc' = [pc EXCEPT ![1] = "store"]
    /\ EnterStore(1)
    /\ UNCHANGED <<now, dbVars, urlIndex, matchData, failure, checkDate, feeds, histVars>>
    /\ UNCHANGED <<aggVars, fetchVars>>

\* The call returns; the rows of the match after the first call are kept.
StoreReturn ==
    /\ pc[1] = "stored"
    /\ pc' = [pc EXCEPT ![1] = "idle"]
    /\ storeRuns' = storeRuns + 1
    /\ firstRows' = IF storeRuns = 0
                    THEN [Matches |-> RowsOf(Matches, CurMatchId(1)),
                          TeamMatchPerformance |-> RowsOf(TeamMatchPerformance, CurMatchId(1)),
                          PlayerMatchPerformance |-> RowsOf(PlayerMatchPerformance, CurMatchId(1))]
                    ELSE firstRows
    /\ UNCHANGED <<now, dbVars, urlIndex, matchData, storePc, timestamp, failure,
                   checkDate, feeds, written, increments>>
    /\ UNCHANGED <<aggVars, fetchVars>>

InitStore == AggOff /\ FetchOff /\ StoreHarnessInit
NextStore == StoreCall \/ StoreStep(1) \/ StoreReturn \/ Tick
SpecStore == InitStore /\ [][NextStore]_vars

----------------------------------------------------------------------------
(* Properties of fetchMatchJson *)

FailedOutcomes == {"network", "status", "nomatch", "badjson"}

\* The feeds, in URL order, whose outcome satisfies Keep
RECURSIVE PayloadsFrom(_, _)
PayloadsFrom(outs, keepNull) ==
    IF outs = <<>> THEN <<>>
    ELSE IF Head(outs).outcome = "success" /\ (keepNull \/ Head(outs).payload # Null)
         THEN <<Head(outs).payload>> \o PayloadsFrom(Tail(outs), keepNull)
         ELSE PayloadsFrom(Tail(outs), keepNull)

\* C2 as stated: for every combination of per-feed outcomes fetchMatchJson
\* returns exactly the payloads of the feeds that succeeded, in URL order, and
\* throws if and only if no feed succeeded.
C2_ReturnsEverySuccess ==
    fetchPc = "done" =>
        /\ fetchResult.threw <=> PayloadsFrom(served, TRUE) = <<>>
        /\ ~fetchResult.threw => fetchResult.value = PayloadsFrom(served, TRUE)

\* C2, amended: fetchMatchJson returns exactly the payloads of the feeds that
\* succeeded with a JSON value other than null, in URL order, a failed feed
\* never discarding its sibling, and throws if and only if there is no such feed.
C2_ReturnsNonNullSuccesses ==
    fetchPc = "done" =>
        /\ fetchResult.threw <=> PayloadsFrom(served, FALSE) = <<>>
        /\ ~fetchResult.threw => fetchResult.value = PayloadsFrom(served, FALSE)

\* One feed fails on the network and its sibling's payload is returned alone.
C2_Witness ==
    /\ fetchPc = "done"
    /\ served[1].outcome = "network" /\ served[2].outcome = "success"
    /\ served[2].payload # Null
    /\ ~fetchResult.threw /\ fetchResult.value = <<served[2].payload>>

----------------------------------------------------------------------------
(* Properties of processMatchData *)

RECURSIVE SumDotBalls(_)
SumDotBalls(players) ==
    IF players = <<>> THEN 0 ELSE Head(players).dotBallsBowled + SumDotBalls(Tail(players))
RECURSIVE SumTrees(_)
SumTrees(players) ==
    IF players = <<>> THEN 0 ELSE Head(players).treesBowling + SumTrees(Tail(players))

TotalsConsistent(teams) ==
    \A k \in 1..Len(teams) :
        /\ \A p \in 1..Len(teams[k].players) :
            teams[k].players[p].treesBowling = 18 * teams[k].players[p].dotBallsBowled
        /\ teams[k].totalDotBallsBowled = SumDotBalls(teams[k].players)
        /\ teams[k].totalTreesPlanted = SumTrees(teams[k].players)

\* C5: in the MatchData processMatchData returns, and in the team mapping after
\* every bowler it folds, every player has treesBowling = 18 * dotBallsBowled and
\* every team's two totals are the sums over its players.
C5_TreesAndTotals ==
    /\ TotalsConsistent(teamStatsMap)
    /\ aggPc = "done" => TotalsConsistent(aggResult.teams)

\* A returned MatchData in which a bowler with dot balls has been folded twice.
C5_Witness ==
    /\ aggPc = "done"
    /\ \E k \in 1..Len(aggResult.teams) :
        /\ aggResult.teams[k].totalTreesPlanted = 54
        /\ Len(aggResult.teams[k].players) = 1

NamesUnique(teams) ==
    /\ \A j, k \in 1..Len(teams) : teams[j].name = teams[k].name => j = k
    /\ \A k \in 1..Len(teams) : \A p, q \in 1..Len(teams[k].players) :
            teams[k].players[p].name = teams[k].players[q].name => p = q

\* The step folds one bowler entry
FoldsBowler == aggPc = "bowlers" /\ bowlerIndex' = bowlerIndex + 1

\* What folding bowler' into the bowling team must do to the mapping: a player
\* of that name in that team receives the entry's dot balls and trees, or else
\* a new player is added; every other team and player is left as it was.
Accumulates ==
    LET k == MapIndex(teamStatsMap, bowlingTeam)
        name == BowlerName(bowler')
        d == ParseIntOrZero(bowler'.DotBalls)
        old == teamStatsMap[k].players
        new == teamStatsMap'[k].players
        same == {p \in 1..Len(old) : old[p].name = name}
    IN  /\ Len(teamStatsMap') = Len(teamStatsMap)
        /\ \A j \in 1..Len(teamStatsMap) : j # k => teamStatsMap'[j] = teamStatsMap[j]
        /\ IF same # {}
           THEN /\ Len(new) = Len(old)
                /\ \A p \in 1..Len(old) :
                    IF p \in same
                    THEN /\ new[p].dotBallsBowled = old[p].dotBallsBowled + d
                         /\ new[p].treesBowling = old[p].treesBowling + 18 * d
                    ELSE new[p] = old[p]
           ELSE /\ Len(new) = Len(old) + 1
                /\ SubSeq(new, 1, Len(old)) = old
                /\ new[Len(new)].name = name
                /\ new[Len(new)].dotBallsBowled = d
                /\ new[Len(new)].treesBowling = 18 * d

\* C6: no two teams of the mapping share a name, no two players of one team
\* share a name, and a bowler entry whose resolved name equals that of a player
\* of the same bowling team is added to that player, other teams' players of
\* the same name being left alone.
C6_UniqueNames ==
    /\ [](NamesUnique(teamStatsMap) /\ (aggPc = "done" => NamesUnique(aggResult.teams)))
    /\ [][FoldsBowler => Accumulates]_vars

\* Two entries have been folded and the result holds a single player, with
\* the dot balls and trees of both.
C6_Witness ==
    /\ aggPc = "done" /\ entriesRead = 2
    /\ \E k \in 1..Len(aggResult.teams) :
        /\ \A j \in 1..Len(aggResult.teams) : j # k => aggResult.teams[j].players = <<>>
        /\ Len(aggResult.teams[k].players) = 1
        /\ aggResult.teams[k].players[1].name = <<"X">>
        /\ aggResult.teams[k].players[1].dotBallsBowled = 2
        /\ aggResult.teams[k].players[1].treesBowling = 36

----------------------------------------------------------------------------
(* Properties of storeMatchData *)

TeamRows(matchId, md) ==
    {[match_id |-> matchId, team_id |-> md.teams[k].name,
      total_dot_balls_bowled |-> md.teams[k].totalDotBallsBowled,
      total_trees_planted |-> md.teams[k].totalTreesPlanted] : k \in 1..Len(md.teams)}

\* After storeRuns completed calls: every team's summary total is storeRuns
\* times its trees, and the match's performance rows are those of the first call.
SummaryGrowsPerformanceStays ==
    /\ \A k \in 1..Len(matchData[1].teams) :
        \E r \in TreePlantingSummary :
            /\ r.team_id = matchData[1].teams[k].name
            /\ r.total_trees_planted = storeRuns * matchData[1].teams[k].totalTreesPlanted
    /\ RowsOf(TeamMatchPerformance, CurMatchId(1)) = TeamRows(CurMatchId(1), matchData[1])
    /\ RowsOf(TeamMatchPerformance, CurMatchId(1)) = firstRows.TeamMatchPerformance
    /\ RowsOf(PlayerMatchPerformance, CurMatchId(1)) = firstRows.PlayerMatchPerformance

\* C3 as stated: after n completed runs of storeMatchData for the same match and
\* MatchData each team's summary total has grown by n times its trees, and the
\* Match, TeamMatchPerformance and PlayerMatchPerformance rows of the match are
\* the same as after one run.
C3_RowsSameAfterReruns ==
    (pc[1] = "idle" /\ storeRuns >= 1) =>
        /\ SummaryGrowsPerformanceStays
        /\ RowsOf(Matches, CurMatchId(1)) = firstRows.Matches

\* C3, amended: the summary grows by n times the trees and the performance rows
\* are the same as after one run; the match keeps a single Match row with its id
\* and URL, whose match_date and timestamp are those of the latest run.
C3_MatchRowRestamped ==
    (pc[1] = "idle" /\ storeRuns >= 1) =>
        /\ SummaryGrowsPerformanceStays
        /\ RowsOf(Matches, CurMatchId(1)) =
            {[match_id |-> CurMatchId(1), match_url |-> CurUrl(1),
              match_date |-> timestamp[1], timestamp |-> timestamp[1]]}
        /\ \A f \in firstRows.Matches :
            f.match_id = CurMatchId(1) /\ f.match_url = CurUrl(1)

\* Two completed runs half a day apart: a total of twice 36 trees and a Match
\* row that is no longer the first run's.
C3_Witness ==
    /\ pc[1] = "idle" /\ storeRuns = 2
    /\ \E r \in TreePlantingSummary : r.total_trees_planted = 72
    /\ Cardinality(RowsOf(PlayerMatchPerformance, CurMatchId(1))) = 2
    /\ RowsOf(Matches, CurMatchId(1)) # firstRows.Matches

\* The Match row a call writes
MatchRowOf(i) ==
    [match_id |-> CurMatchId(i), match_url |-> CurUrl(i),
     match_date |-> timestamp[i], timestamp |-> timestamp[i]]

\* C8: when a write of storeMatchData fails the store is left as the writes
\* before it made it: the Match row of the call and the performance rows of the
\* teams already handled are still there.
C8_NoRollback ==
    [][(pc[1] = "store" /\ pc'[1] = "finished") =>
            /\ dbVars' = dbVars
            /\ storePc[1].stmt # "match" =>
                /\ MatchRowOf(1) \in Matches'
                /\ \A k \in 1..(storePc[1].team - 1) :
                    \E r \in TeamMatchPerformance' :
                        r.match_id = CurMatchId(1) /\ r.team_id = matchData[1].teams[k].name]_vars

\* A failed call has left today's Match row and a team's performance row, and
\* that team has no summary row.
C8_Witness ==
    /\ pc[1] = "finished" /\ failure[1] = "store"
    /\ \E m \in Matches :
        /\ SqlDate(m.match_date) = CurDate
        /\ \E r \in TeamMatchPerformance :
            /\ r.match_id = m.match_id /\ r.total_trees_planted > 0
            /\ \A x \in TreePlantingSummary : x.team_id # r.team_id

----------------------------------------------------------------------------
(* Properties of the scheduled handler *)

\* The summary additions made for a match, team and date
AdditionsFor(matchId, teamId, date) ==
    {e \in BagToSet(increments) : e.match = matchId /\ e.team = teamId /\ e.date = date}
RECURSIVE Copies(_)
Copies(S) ==
    IF S = {} THEN 0
    ELSE LET e == CHOOSE x \in S : TRUE IN CopiesIn(e, increments) + Copies(S \ {e})
RECURSIVE TreesAdded(_)
TreesAdded(S) ==
    IF S = {} THEN 0
    ELSE LET e == CHOOSE x \in S : TRUE
         IN  CopiesIn(e, increments) * e.trees + TreesAdded(S \ {e})

\* C1 as stated: an invocation that ends on a failure of one URL (fetch or
\* store) leaves no later URL unprocessed: every later URL is recorded today.
C1_FailureKeepsLaterUrls ==
    [][(pc[1] \in {"process", "store"} /\ pc'[1] = "finished") =>
            \A k \in (urlIndex[1] + 1)..Len(Urls) :
                ProcessedOn(Matches, ExtractMatchId(Urls[k]), NowText(now))]_vars

\* C4: with invocations one after the other, an invocation goes on to fetch a
\* match only if no Match row was ever written for it with the date of its
\* check, and the summary is added to at most once per match, team and date.
C4_OncePerDate ==
    /\ (pc[1] = "process" \/ (pc[1] = "store" /\ storePc[1].stmt = "match")) =>
            <<CurMatchId(1), checkDate[1]>> \notin written
    /\ \A e \in BagToSet(increments) : Copies(AdditionsFor(e.match, e.team, e.date)) = 1

\* An invocation skips a match whose trees were added to the summary today.
C4_Witness ==
    /\ pc[1] = "skip"
    /\ <<CurMatchId(1), CurDate>> \in written
    /\ \E e \in BagToSet(increments) :
        e.match = CurMatchId(1) /\ e.date = CurDate /\ e.trees > 0

\* C9: two overlapping invocations lose no summary addition: each team's total
\* is the sum of everything added for it, twice a match's trees when both
\* invocations store the match.
C9_BothAdditionsCount ==
    /\ \A r \in TreePlantingSummary :
        r.total_trees_planted =
            TreesAdded({e \in BagToSet(increments) : e.team = r.team_id})
    /\ \A e \in BagToSet(increments) : \E r \in TreePlantingSummary : r.team_id = e.team

\* Both invocations have added a team's trees for one match on one date.
C9_Witness ==
    \E e \in BagToSet(increments) :
        /\ CopiesIn(e, increments) = 2 /\ e.trees > 0
        /\ \E r \in TreePlantingSummary :
            r.team_id = e.team /\ r.total_trees_planted >= 2 * e.trees

\* The innings section a feed's payload carries for its own innings
OwnSection(payload, k) == IF k = 1 THEN payload.Innings1 ELSE payload.Innings2
RECURSIVE CardDotBalls(_)
CardDotBalls(card) ==
    IF card = <<>> THEN 0
    ELSE ParseIntOrZero(Head(card).DotBalls) + CardDotBalls(Tail(card))

\* C10 as stated: when exactly one feed of a match succeeds and its payload
\* carries its own innings section, the MatchData holds that innings' bowling
\* team with the dot balls and trees of its bowling card.
C10_LoneFeedCounted ==
    pc[1] = "store" =>
        \A k \in 1..NumFeeds :
            (/\ feeds[1][k].outcome = "success"
             /\ feeds[1][3 - k].outcome \in FailedOutcomes
             /\ feeds[1][k].payload # Null
             /\ OwnSection(feeds[1][k].payload, k) # Undefined) =>
                LET sec == OwnSection(feeds[1][k].payload, k)
                IN  \E t \in 1..Len(matchData[1].teams) :
                        /\ matchData[1].teams[t].name =
                                TeamIdToString(HeadTeamID(sec.BowlingCard))
                        /\ matchData[1].teams[t].totalDotBallsBowled =
                                CardDotBalls(sec.BowlingCard.v)
                        /\ matchData[1].teams[t].totalTreesPlanted =
                                18 * CardDotBalls(sec.BowlingCard.v)

----------------------------------------------------------------------------
(* Invocations one after the other in which nothing fails *)

\* Line 426 when both feeds of the match are fetched and decoded.
ProcessMatchUrlAllFetched(i) ==
    /\ ProcessMatchUrl(i)
    /\ \A k \in 1..NumFeeds : feeds'[i][k].outcome = "success"

\* The steps of an invocation in which no fetch and no statement fails.
RunUnfailing(i) ==
    \/ Start(i) \/ CountProcessed(i) \/ SkipProcessed(i) \/ Continue(i)
    \/ CheckMatch(i) \/ ProcessMatchUrlAllFetched(i) \/ StoreStep(i)
    \/ NextUrl(i) \/ LogTotals(i)

NextUnfailing == RunUnfailing(1) \/ Tick
SpecUnfailing == Init /\ [][NextUnfailing]_vars

\* The trees of a team over a set of TeamMatchPerformance rows
RECURSIVE PerformanceTrees(_)
PerformanceTrees(rows) ==
    IF rows = {} THEN 0
    ELSE LET r == CHOOSE x \in rows : TRUE
         IN  r.total_trees_planted + PerformanceTrees(rows \ {r})

\* C11 as stated: when invocations one after the other have ended and no fetch
\* or write has failed, on one date or across several, each team's
\* TreePlantingSummary total is the sum of total_trees_planted over the team's
\* TeamMatchPerformance rows.
C11_SummaryIsSumOfPerformance ==
    pc[1] \in {"idle", "finished"} =>
        \A s \in TreePlantingSummary :
            s.total_trees_planted =
                PerformanceTrees({r \in TeamMatchPerformance : r.team_id = s.team_id})

====
